---- MODULE Spec2Model ----
(***************************************************************************)
(* Model of chott: the actor decision engine (Actor::decide), the action   *)
(* applier (Actor::apply_action), the partial tick scheduler               *)
(* (ActorManager::tick_some), the background tick task of main, the        *)
(* population read of index_handler, the environment cache                *)
(* (EnvironmentManager::get_environment_for_page) and the navigation of    *)
(* the user session (valid_move, get_or_create_user_session).              *)
(***************************************************************************)
EXTENDS Integers, Sequences, FiniteSets, TLC

VARIABLES
    actors,        \* ActorManager.actors : actor id -> Actor
    lock,          \* holder of the Mutex<ActorManager>: "free", "tick" or a handler
    poisoned,      \* poison flag of the Mutex<ActorManager>
    tick_pc,       \* position of the background tick task
    tick_result,   \* what the last catch_unwind of the tick task returned
    world_time,    \* WorldTime.hour of the running tick
    chosen,        \* tick_some: chosen
    location_map,  \* tick_some: location_map
    events,        \* tick_some: events
    applied,       \* tick_some: number of events the apply loop has consumed
    preTick,       \* history: the population when the running tick took the lock
    ticks,         \* history: number of calls of tick_some
    handler_pc,    \* position of each index_handler request
    handler_page,  \* page.id of each index_handler request
    actors_here,   \* index_handler: actors_here of each request
    dcall,         \* one call of Actor::decide: its arguments and its result
    acall,         \* a run of calls of Actor::apply_action on one actor
    cache,         \* EnvironmentManager.cache : page id -> Environment
    clock,         \* SystemTime::now(), in minutes
    ecall,         \* the last call of get_environment_for_page and its result
    generated,     \* history: calls of generate_environment per page id
    returned,      \* history: the first Environment returned per page id
    session_store, \* what the session of the client holds under SESSION_KEY
    request        \* the session part of each index_handler request

vars == <<actors, lock, poisoned, tick_pc, tick_result, world_time, chosen,
          location_map, events, applied, preTick, ticks, handler_pc,
          handler_page, actors_here, dcall, acall, cache, clock, ecall,
          generated, returned, session_store, request>>

tickVars == <<actors, lock, poisoned, tick_pc, tick_result, world_time, chosen,
              location_map, events, applied, preTick, ticks>>

handlerVars == <<handler_pc, handler_page, actors_here>>

pureVars == <<dcall, acall>>

envVars == <<cache, clock, ecall, generated, returned>>

sessionVars == <<session_store, request>>

----------------------------------------------------------------------------
(* Bounds of the model *)

MaxTicks == 1

NumHandlers == 1

MaxLocals == 2

MaxPop == 21

MaxMinutes == 2

NumRequests == 2

----------------------------------------------------------------------------
(* Program constants *)

fatigue_threshold == 20

U8Max == 255

DayStart == 6

DayEnd == 18

----------------------------------------------------------------------------
(* Small helpers *)

Min(a, b) == IF a < b THEN a ELSE b

Max(a, b) == IF a > b THEN a ELSE b

Range(s) == {s[i] : i \in 1..Len(s)}

RECURSIVE InjSeqs(_, _)
InjSeqs(S, k) ==
    IF k = 0 THEN {<<>>}
    ELSE UNION {{<<x>> \o s : s \in InjSeqs(S \ {x}, k - 1)} : x \in S}

Perms(S) == InjSeqs(S, Cardinality(S))

RECURSIVE SelectSeq2(_, _)
SelectSeq2(s, S) ==
    IF s = <<>> THEN <<>>
    ELSE IF Head(s) \in S THEN <<Head(s)>> \o SelectSeq2(Tail(s), S)
    ELSE SelectSeq2(Tail(s), S)

----------------------------------------------------------------------------
(* pages.rs *)

PageConnection(name, target) == [name |-> name, target |-> target]

Page(id, connections) == [id |-> id, connections |-> connections]

\* Variant: the North connection of route-1 names a page that is not loaded.
load_page_graph_dangling ==
    [p \in {"small-town", "route-1", "green-city"} |->
        CASE p = "small-town" ->
               Page(p, <<PageConnection("North", "route-1")>>)
          [] p = "route-1" ->
               Page(p, <<PageConnection("North", "green-town"),
                         PageConnection("South", "small-town")>>)
          [] p = "green-city" ->
               Page(p, <<PageConnection("South", "route-1")>>)]

load_page_graph ==
    [p \in {"small-town", "route-1", "green-city"} |->
        CASE p = "small-town" ->
               Page(p, <<PageConnection("North", "route-1")>>)
          [] p = "route-1" ->
               Page(p, <<PageConnection("North", "green-city"),
                         PageConnection("South", "small-town")>>)
          [] p = "green-city" ->
               Page(p, <<PageConnection("South", "route-1")>>)]

PageIds == DOMAIN load_page_graph

----------------------------------------------------------------------------
(* environment.rs: WorldTime *)

\* Variant: the first daytime hour is left out.
is_daytime_after_start(hour) == hour > DayStart /\ hour < DayEnd

is_daytime(hour) == hour >= DayStart /\ hour < DayEnd

is_night(hour) == ~is_daytime(hour)

----------------------------------------------------------------------------
(* actor.rs: data *)

ActorFlag == {"Organic", "CanAttack", "CanSpeak", "Nocturnal", "Predatory"}

ActorState(health, awake, fatigue) ==
    [health |-> health, awake |-> awake, fatigue |-> fatigue, target |-> "None"]

Actor(id, name, location, state, flags) ==
    [id |-> id, name |-> name, location |-> location, state |-> state,
     flags |-> flags]

Idle == [kind |-> "Idle", arg |-> "-"]

MoveTo(page_id) == [kind |-> "MoveTo", arg |-> page_id]

Attack(target_id) == [kind |-> "Attack", arg |-> target_id]

Sleep == [kind |-> "Sleep", arg |-> "-"]

WakeUp == [kind |-> "WakeUp", arg |-> "-"]

has_flag(a, flag) == flag \in a.flags

----------------------------------------------------------------------------
(* u8 arithmetic *)

\* Variant: the subtraction does not go below the fatigue threshold.
saturating_sub_resting(x, n) == IF x - n < 20 THEN x ELSE x - n

saturating_sub(x, n) == IF x - n < 0 THEN 0 ELSE x - n

\* The u8 subtraction of a release build.
wrapping_sub(x, n) == (x - n) % (U8Max + 1)

\* Variant: the addition wraps around instead of saturating.
saturating_add_wrapping(x, n) == (x + n) % (U8Max + 1)

saturating_add(x, n) == IF x + n > U8Max THEN U8Max ELSE x + n


----------------------------------------------------------------------------
(* actor.rs: Actor::decide *)

\* Indices of the entries of local_actors the predation closure accepts.
attack_candidates(self, local_actors) ==
    {i \in 1..Len(local_actors) :
        /\ local_actors[i].location = self.location
        /\ has_flag(local_actors[i], "Organic")
        /\ local_actors[i].id # self.id}

\* Variant: the last accepted entry.
find_target_last(self, local_actors) ==
    LET c == attack_candidates(self, local_actors)
    IN  local_actors[CHOOSE i \in c : \A j \in c : i >= j]

\* Iterator::find: the first accepted entry.
find_target(self, local_actors) ==
    LET c == attack_candidates(self, local_actors)
    IN  local_actors[CHOOSE i \in c : \A j \in c : i <= j]

\* rand::random::<u8>() % 100 == 0
move_chance(roll) == roll % 100 = 0

\* The indices rng.random_range(0..page.connections.len()) can return.
connection_indices(self, page_graph) ==
    IF self.location \in DOMAIN page_graph
       /\ page_graph[self.location].connections # <<>>
    THEN 0..(Len(page_graph[self.location].connections) - 1)
    ELSE {0}

\* Variant: an actor with nowhere to go walks to small-town.
default_behavior_homing(self, page_graph, roll, idx) ==
    IF move_chance(roll)
    THEN IF /\ self.location \in DOMAIN page_graph
            /\ page_graph[self.location].connections # <<>>
         THEN MoveTo(page_graph[self.location].connections[idx + 1].target)
         ELSE MoveTo("small-town")
    ELSE Idle

default_behavior(self, page_graph, roll, idx) ==
    IF /\ move_chance(roll)
       /\ self.location \in DOMAIN page_graph
       /\ page_graph[self.location].connections # <<>>
    THEN MoveTo(page_graph[self.location].connections[idx + 1].target)
    ELSE Idle

\* Variant: the predation rule does not ask whether the actor is awake.
decide_rules_sleepwalking(self, hour, local_actors, page_graph, roll, idx) ==
    LET is_nocturnal == has_flag(self, "Nocturnal")
        is_awake == self.state.awake
        a1 == IF is_nocturnal /\ is_night(hour) /\ ~is_awake
              THEN <<WakeUp>> ELSE <<>>
        a2 == IF ~is_nocturnal /\ is_daytime(hour) /\ ~is_awake
              THEN Append(a1, WakeUp) ELSE a1
        a3 == IF /\ has_flag(self, "Predatory")
                 /\ attack_candidates(self, local_actors) # {}
              THEN Append(a2, Attack(find_target(self, local_actors).id))
              ELSE a2
        actions == IF a3 = <<>> /\ is_awake
                   THEN Append(a3, default_behavior(self, page_graph, roll, idx))
                   ELSE a3
    IN  IF actions = <<>> THEN Idle ELSE Head(actions)

\* The rules below the fatigue override; roll and idx are the two random
\* draws default_behavior makes.
decide_rules(self, hour, local_actors, page_graph, roll, idx) ==
    LET is_nocturnal == has_flag(self, "Nocturnal")
        is_awake == self.state.awake
        a1 == IF is_nocturnal /\ is_night(hour) /\ ~is_awake
              THEN <<WakeUp>> ELSE <<>>
        a2 == IF ~is_nocturnal /\ is_daytime(hour) /\ ~is_awake
              THEN Append(a1, WakeUp) ELSE a1
        a3 == IF /\ has_flag(self, "Predatory")
                 /\ is_awake
                 /\ attack_candidates(self, local_actors) # {}
              THEN Append(a2, Attack(find_target(self, local_actors).id))
              ELSE a2
        actions == IF a3 = <<>> /\ is_awake
                   THEN Append(a3, default_behavior(self, page_graph, roll, idx))
                   ELSE a3
    IN  IF actions = <<>> THEN Idle ELSE Head(actions)

\* Variant: the override starts above the threshold.
decide_above_threshold(self, hour, local_actors, page_graph, roll, idx) ==
    IF self.state.fatigue > fatigue_threshold
    THEN Sleep
    ELSE decide_rules(self, hour, local_actors, page_graph, roll, idx)

decide(self, hour, local_actors, page_graph, roll, idx) ==
    IF self.state.fatigue >= fatigue_threshold
    THEN Sleep
    ELSE decide_rules(self, hour, local_actors, page_graph, roll, idx)

----------------------------------------------------------------------------
(* actor.rs: Actor::apply_action *)

\* Variant: the decrement is unguarded and wraps around.
apply_Idle_wrapping(self) ==
    [self EXCEPT !.state.fatigue = wrapping_sub(self.state.fatigue, 1)]

apply_Idle(self) ==
    IF self.state.fatigue > 0
    THEN [self EXCEPT !.state.fatigue = saturating_sub(self.state.fatigue, 1)]
    ELSE self

\* Variant: the walk also costs a point of health.
apply_MoveTo_bruising(self, page_id) ==
    [self EXCEPT !.location = page_id,
                 !.state.fatigue = saturating_add(self.state.fatigue, 4),
                 !.state.health = @ - 1]

apply_MoveTo(self, page_id) ==
    [self EXCEPT !.location = page_id,
                 !.state.fatigue = saturating_add(self.state.fatigue, 4)]

\* Variant: an attack costs 8.
apply_Attack_heavy(self, target_id) ==
    [self EXCEPT !.state.fatigue = saturating_add(self.state.fatigue, 8)]

apply_Attack(self, target_id) ==
    [self EXCEPT !.state.fatigue = saturating_add(self.state.fatigue, 6)]

\* Variant: Sleep lowers the fatigue and leaves the awake flag.
apply_Sleep_awake(self) ==
    [self EXCEPT !.state.fatigue = saturating_sub(self.state.fatigue, 1)]

apply_Sleep(self) ==
    [self EXCEPT !.state.awake = FALSE,
                 !.state.fatigue = saturating_sub(self.state.fatigue, 1)]

\* Variant: the decrement is unguarded.
apply_WakeUp_unguarded(self) ==
    [self EXCEPT !.state.awake = TRUE,
                 !.state.fatigue = wrapping_sub(self.state.fatigue, 2)]

apply_WakeUp(self) ==
    IF self.state.fatigue > 2
    THEN [self EXCEPT !.state.awake = TRUE,
                      !.state.fatigue = wrapping_sub(self.state.fatigue, 2)]
    ELSE [self EXCEPT !.state.awake = TRUE]

\* Variant: an actor that idles falls asleep.
apply_action_dozing(self, action) ==
    CASE action.kind = "Idle"   -> [apply_Idle(self) EXCEPT !.state.awake = FALSE]
      [] action.kind = "MoveTo" -> apply_MoveTo(self, action.arg)
      [] action.kind = "Attack" -> apply_Attack(self, action.arg)
      [] action.kind = "Sleep"  -> apply_Sleep(self)
      [] action.kind = "WakeUp" -> apply_WakeUp(self)

apply_action(self, action) ==
    CASE action.kind = "Idle"   -> apply_Idle(self)
      [] action.kind = "MoveTo" -> apply_MoveTo(self, action.arg)
      [] action.kind = "Attack" -> apply_Attack(self, action.arg)
      [] action.kind = "Sleep"  -> apply_Sleep(self)
      [] action.kind = "WakeUp" -> apply_WakeUp(self)

----------------------------------------------------------------------------
(* actor.rs: ActorManager::new *)

seed_roster ==
    [id \in {"prof", "joey", "sneezer", "susan"} |->
        CASE id = "prof" ->
               Actor(id, "Professor Tree", "small-town",
                     ActorState(10, TRUE, 0), {"Organic", "CanSpeak"})
          [] id = "joey" ->
               Actor(id, "Young Joey", "route-1",
                     ActorState(8, TRUE, 0), {"Organic", "CanSpeak"})
          [] id = "sneezer" ->
               Actor(id, "Sneezer", "route-1",
                     ActorState(2, TRUE, 0), {"Organic"})
          [] id = "susan" ->
               Actor(id, "Susan B. Anthony", "green-city",
                     ActorState(99, TRUE, 1), {"Organic", "CanSpeak"})]

----------------------------------------------------------------------------
(* Inputs of single calls of decide and apply_action *)

FatigueSamples == {0, 19, 20, U8Max}

HourSamples == {5, 6, 17, 18}

\* Hours the wall clock shows when a tick starts: one at night, one by day.
TickHours == {3, 12}

RollSamples == {0, 1, 100, U8Max}

FlagSamples == SUBSET {"Organic", "Nocturnal", "Predatory"} \cup {{"Organic", "CanSpeak"}}

CallerId == "a0"

LocalIds == {"a0", "a1", "a2"}

CallLocations == {"small-town", "route-1"}

\* A graph in which small-town is a dead end and route-1 does not exist.
dead_end_graph == [p \in {"small-town"} |-> Page(p, <<>>)]

GraphSamples == {load_page_graph, dead_end_graph}

CallerSamples ==
    {Actor(CallerId, CallerId, l, ActorState(1, w, f), fl) :
        l \in CallLocations, w \in BOOLEAN, f \in FatigueSamples, fl \in FlagSamples}

LocalSamples(id) ==
    {Actor(id, id, l, ActorState(1, TRUE, 0), fl) :
        l \in CallLocations, fl \in {{}, {"Organic"}}}

\* Lists of at most n actors with pairwise distinct ids drawn from ids.
RECURSIVE ListsOver(_, _)
ListsOver(ids, n) ==
    IF n = 0 THEN {<<>>}
    ELSE {<<>>} \cup
         UNION {{<<a>> \o rest : a \in LocalSamples(x),
                                 rest \in ListsOver(ids \ {x}, n - 1)} : x \in ids}

LocalLists == ListsOver(LocalIds, MaxLocals)

NoCall == <<>>

ApplyInputs ==
    {Actor(CallerId, CallerId, l, ActorState(1, w, f), {"Organic"}) :
        l \in PageIds, w \in BOOLEAN, f \in 0..U8Max}

ActionSamples ==
    {Idle, Sleep, WakeUp, Attack("a1")} \cup {MoveTo(p) : p \in PageIds}

IdleRunCap == U8Max + 1

NoApply ==
    [actor |-> Actor(CallerId, CallerId, "small-town", ActorState(1, TRUE, 0), {}),
     before |-> Actor(CallerId, CallerId, "small-town", ActorState(1, TRUE, 0), {}),
     last |-> NoCall, run_start |-> 0, idle_run |-> 0]

NoDecide ==
    [self |-> Actor(CallerId, CallerId, "small-town", ActorState(1, TRUE, 0), {}),
     hour |-> 0, local_actors |-> <<>>, page_graph |-> load_page_graph,
     result |-> NoCall]

\* One call of decide on the drawn arguments.
DecideCall ==
    /\ dcall.result = NoCall
    /\ \E roll \in RollSamples :
       \E idx \in connection_indices(dcall.self, dcall.page_graph) :
          dcall' = [dcall EXCEPT !.result =
                       <<decide(dcall.self, dcall.hour, dcall.local_actors,
                                dcall.page_graph, roll, idx)>>]
    /\ UNCHANGED <<tickVars, handlerVars, acall, envVars, sessionVars>>

\* One more call of apply_action on the same actor.
ApplyCall ==
    /\ \E action \in ActionSamples :
          LET post == apply_action(acall.actor, action)
          IN  acall' =
                [actor |-> post,
                 before |-> acall.actor,
                 last |-> <<action>>,
                 run_start |-> IF action = Idle THEN acall.run_start
                               ELSE post.state.fatigue,
                 idle_run |-> IF action = Idle
                              THEN Min(acall.idle_run + 1, IdleRunCap)
                              ELSE 0]
    /\ UNCHANGED <<tickVars, handlerVars, dcall, envVars, sessionVars>>

----------------------------------------------------------------------------
(* The Mutex<ActorManager> shared by the tick task and the handlers *)

Handlers == 1..NumHandlers

Free == [holder |-> "free", h |-> 0]

HeldByTick == [holder |-> "tick", h |-> 0]

HeldByHandler(h) == [holder |-> "handler", h |-> h]

\* Mutex::lock succeeds: nobody holds the mutex and it is not poisoned.
can_lock == lock = Free /\ ~poisoned

NoLocationMap == [p \in {} |-> <<>>]

----------------------------------------------------------------------------
(* actor.rs: ActorManager::tick_some, called by the tick task of main.rs *)

\* Variant: without the leading 1 +.
num_to_tick_floor(n) == Max(n \div 10, 1)

num_to_tick(n) == 1 + Max(n \div 10, 1)

\* Variant: the keys are drawn with replacement.
choose_multiple_replacing(keys, amount) ==
    [1..Min(amount, Cardinality(keys)) -> keys]

\* IteratorRandom::choose_multiple: amount distinct keys, or all of them when
\* there are fewer, in an order the random generator decides.
choose_multiple(keys, amount) == InjSeqs(keys, Min(amount, Cardinality(keys)))

\* The map the loop over self.actors.iter() builds when the HashMap yields
\* its entries in the given order.
build_location_map(pop, order) ==
    [p \in {pop[id].location : id \in DOMAIN pop} |->
        SelectSeq2(order, {id \in DOMAIN pop : pop[id].location = p})]

\* locals: the actors the index lists at the location of id, without id.
locals_of(pop, lmap, id) ==
    LET local_ids == IF pop[id].location \in DOMAIN lmap
                     THEN lmap[pop[id].location] ELSE <<>>
        others == SelectSeq2(local_ids, DOMAIN pop \ {id})
    IN  [i \in 1..Len(others) |-> pop[others[i]]]

\* interval tick, WorldTime from the wall clock, lock().unwrap()
TickLock ==
    /\ tick_pc = "sleep"
    /\ ticks < MaxTicks
    /\ can_lock
    /\ \E hour \in TickHours : world_time' = hour
    /\ lock' = HeldByTick
    /\ tick_pc' = "choose"
    /\ ticks' = ticks + 1
    /\ preTick' = actors
    /\ UNCHANGED <<actors, poisoned, tick_result, chosen, location_map, events,
                   applied, handlerVars, pureVars, envVars, sessionVars>>

TickChoose ==
    /\ tick_pc = "choose"
    /\ chosen' \in choose_multiple(DOMAIN actors, num_to_tick(Cardinality(DOMAIN actors)))
    /\ tick_pc' = "index"
    /\ UNCHANGED <<actors, lock, poisoned, tick_result, world_time, location_map,
                   events, applied, preTick, ticks, handlerVars, pureVars, envVars, sessionVars>>

TickIndex ==
    /\ tick_pc = "index"
    /\ \E order \in Perms(DOMAIN actors) :
          location_map' = build_location_map(actors, order)
    /\ tick_pc' = "decide"
    /\ UNCHANGED <<actors, lock, poisoned, tick_result, world_time, chosen,
                   events, applied, preTick, ticks, handlerVars, pureVars, envVars, sessionVars>>

\* Variant: each action is applied as soon as it is decided.
TickDecide_applying ==
    /\ tick_pc = "decide"
    /\ Len(events) < Len(chosen)
    /\ LET id == chosen[Len(events) + 1]
       IN  \E roll \in RollSamples :
           \E idx \in connection_indices(actors[id], load_page_graph) :
              LET action == decide(actors[id], world_time,
                                   locals_of(actors, location_map, id),
                                   load_page_graph, roll, idx)
              IN  /\ events' = Append(events, <<id, action>>)
                  /\ actors' = [actors EXCEPT ![id] = apply_action(actors[id], action)]
    /\ applied' = applied + 1
    /\ tick_pc' = IF Len(events') = Len(chosen) THEN "apply" ELSE "decide"
    /\ UNCHANGED <<lock, poisoned, tick_result, world_time, chosen,
                   location_map, preTick, ticks, handlerVars, pureVars, envVars, sessionVars>>

\* One iteration of the loop that gathers the actions of the chosen actors.
TickDecide ==
    /\ tick_pc = "decide"
    /\ Len(events) < Len(chosen)
    /\ LET id == chosen[Len(events) + 1]
       IN  \E roll \in RollSamples :
           \E idx \in connection_indices(actors[id], load_page_graph) :
              events' = Append(events,
                  <<id, decide(actors[id], world_time,
                               locals_of(actors, location_map, id),
                               load_page_graph, roll, idx)>>)
    /\ tick_pc' = IF Len(events') = Len(chosen) THEN "apply" ELSE "decide"
    /\ UNCHANGED <<actors, lock, poisoned, tick_result, world_time, chosen,
                   location_map, applied, preTick, ticks, handlerVars, pureVars, envVars, sessionVars>>

\* Variant: applying Attack also takes a point of health from the target.
TickApply_hurting ==
    /\ tick_pc = "apply"
    /\ applied < Len(events)
    /\ LET id == events[applied + 1][1]
           action == events[applied + 1][2]
           after == [actors EXCEPT ![id] = apply_action(actors[id], action)]
       IN  actors' = IF action.kind = "Attack" /\ action.arg \in DOMAIN actors
                     THEN [after EXCEPT ![action.arg].state.health = @ - 1]
                     ELSE after
    /\ applied' = applied + 1
    /\ UNCHANGED <<lock, poisoned, tick_pc, tick_result, world_time, chosen,
                   location_map, events, preTick, ticks, handlerVars, pureVars,
                   envVars, sessionVars>>

\* One iteration of the loop that applies the gathered actions.
TickApply ==
    /\ tick_pc = "apply"
    /\ applied < Len(events)
    /\ LET id == events[applied + 1][1]
           action == events[applied + 1][2]
       IN  actors' = [actors EXCEPT ![id] = apply_action(actors[id], action)]
    /\ applied' = applied + 1
    /\ UNCHANGED <<lock, poisoned, tick_pc, tick_result, world_time, chosen,
                   location_map, events, preTick, ticks, handlerVars, pureVars, envVars, sessionVars>>

\* tick_some returns, the guard is dropped, catch_unwind returns Ok.
TickEnd ==
    /\ tick_pc = "apply"
    /\ applied = Len(events)
    /\ lock' = Free
    /\ tick_pc' = "sleep"
    /\ tick_result' = "Ok"
    /\ world_time' = 0
    /\ chosen' = <<>>
    /\ location_map' = NoLocationMap
    /\ events' = <<>>
    /\ applied' = 0
    /\ preTick' = actors
    /\ UNCHANGED <<actors, poisoned, ticks, handlerVars, pureVars, envVars, sessionVars>>

----------------------------------------------------------------------------
(* handler.rs: index_handler, from the lock of the population to its return *)

\* Variant: the handler reads the population without waiting for the lock.
HandlerLock_unguarded(h) ==
    /\ handler_pc[h] = "idle"
    /\ \E p \in PageIds : handler_page' = [handler_page EXCEPT ![h] = p]
    /\ lock' = HeldByHandler(h)
    /\ handler_pc' = [handler_pc EXCEPT ![h] = "locked"]
    /\ UNCHANGED <<actors, poisoned, tick_pc, tick_result, world_time, chosen,
                   location_map, events, applied, preTick, ticks, actors_here,
                   pureVars, envVars, sessionVars>>

HandlerLock(h) ==
    /\ handler_pc[h] = "idle"
    /\ can_lock
    /\ \E p \in PageIds : handler_page' = [handler_page EXCEPT ![h] = p]
    /\ lock' = HeldByHandler(h)
    /\ handler_pc' = [handler_pc EXCEPT ![h] = "locked"]
    /\ UNCHANGED <<actors, poisoned, tick_pc, tick_result, world_time, chosen,
                   location_map, events, applied, preTick, ticks, actors_here,
                   pureVars, envVars, sessionVars>>

\* Variant: every actor the request shows gains a point of fatigue.
HandlerRead_tiring(h) ==
    /\ handler_pc[h] = "locked"
    /\ actors_here' = [actors_here EXCEPT ![h] =
           {actors[id] : id \in {i \in DOMAIN actors :
                /\ actors[i].location = handler_page[h]
                /\ actors[i].state.awake}}]
    /\ actors' = [id \in DOMAIN actors |->
                     IF actors[id].location = handler_page[h] /\ actors[id].state.awake
                     THEN [actors[id] EXCEPT
                              !.state.fatigue = saturating_add(@, 1)]
                     ELSE actors[id]]
    /\ handler_pc' = [handler_pc EXCEPT ![h] = "render"]
    /\ UNCHANGED <<lock, poisoned, tick_pc, tick_result, world_time, chosen,
                   location_map, events, applied, preTick, ticks, handler_page,
                   pureVars, envVars, sessionVars>>

HandlerRead(h) ==
    /\ handler_pc[h] = "locked"
    /\ actors_here' = [actors_here EXCEPT ![h] =
           {actors[id] : id \in {i \in DOMAIN actors :
                /\ actors[i].location = handler_page[h]
                /\ actors[i].state.awake}}]
    /\ handler_pc' = [handler_pc EXCEPT ![h] = "render"]
    /\ UNCHANGED <<tickVars, handler_page, pureVars, envVars, sessionVars>>

\* The template is rendered, or tera.render fails and ? returns the error:
\* either way the handler returns, dropping the guard.
HandlerReturn(h) ==
    /\ handler_pc[h] = "render"
    /\ lock' = Free
    /\ handler_pc' = [handler_pc EXCEPT ![h] = "idle"]
    /\ actors_here' = [actors_here EXCEPT ![h] = {}]
    /\ UNCHANGED <<actors, poisoned, tick_pc, tick_result, world_time, chosen,
                   location_map, events, applied, preTick, ticks, handler_page,
                   pureVars, envVars, sessionVars>>

----------------------------------------------------------------------------
(* A panic while the tick holds the guard, and lock() on a poisoned Mutex *)

\* tick_some panics: unwinding drops the guard, which poisons the Mutex;
\* catch_unwind returns Err and the task reports it.
TickPanic ==
    /\ tick_pc \in {"choose", "index", "decide", "apply"}
    /\ poisoned' = TRUE
    /\ lock' = Free
    /\ tick_pc' = "sleep"
    /\ tick_result' = "Panic"
    /\ world_time' = 0
    /\ chosen' = <<>>
    /\ location_map' = NoLocationMap
    /\ events' = <<>>
    /\ applied' = 0
    /\ preTick' = actors
    /\ UNCHANGED <<actors, ticks, handlerVars, pureVars, envVars, sessionVars>>

\* lock() returns Err(PoisonError), unwrap() panics before tick_some is
\* called; catch_unwind returns Err and the task reports it.
TickLockPoisoned ==
    /\ tick_pc = "sleep"
    /\ lock = Free
    /\ poisoned
    /\ tick_result' = "PoisonError"
    /\ UNCHANGED <<actors, lock, poisoned, tick_pc, world_time, chosen,
                   location_map, events, applied, preTick, ticks, handlerVars,
                   pureVars, envVars, sessionVars>>

\* lock() returns Err(PoisonError) and expect() panics in the handler.
HandlerLockPoisoned(h) ==
    /\ handler_pc[h] = "idle"
    /\ lock = Free
    /\ poisoned
    /\ handler_pc' = [handler_pc EXCEPT ![h] = "panicked"]
    /\ UNCHANGED <<tickVars, handler_page, actors_here, pureVars, envVars, sessionVars>>

----------------------------------------------------------------------------
(* environment.rs: EnvironmentManager *)

Environment(season, weather, timestamp) ==
    [season |-> season, weather |-> weather, timestamp |-> timestamp]

SystemTime(month, minute) == [month |-> month, minute |-> minute]

compute_season(now) ==
    CASE now.month \in {12, 1, 2} -> "Winter"
      [] now.month \in {3, 4, 5} -> "Spring"
      [] now.month \in {6, 7, 8} -> "Summer"
      [] now.month \in {9, 10, 11} -> "Autumn"
      [] OTHER -> "Unknown"

\* later is the second reading of the clock, taken inside random_weather.
random_weather(later) ==
    CASE later.minute % 4 = 0 -> "Clear"
      [] later.minute % 4 = 1 -> "Rainy"
      [] later.minute % 4 = 2 -> "Cloudy"
      [] later.minute % 4 = 3 -> "Windy"
      [] OTHER -> "Foggy"

generate_environment(now, later) ==
    Environment(compute_season(now), random_weather(later), now)

EmptyCache == [p \in {} |-> Environment("Unknown", "Foggy", SystemTime(1, 0))]

insert(c, page_id, env) ==
    [p \in DOMAIN c \cup {page_id} |-> IF p = page_id THEN env ELSE c[p]]

\* Variant: an entry generated at another minute has expired and is
\* generated again.
get_environment_for_page_expiring(c, page_id, now, later) ==
    IF page_id \in DOMAIN c /\ c[page_id].timestamp = now
    THEN [cache |-> c, result |-> c[page_id], hit |-> TRUE]
    ELSE LET new_env == generate_environment(now, later)
         IN  [cache |-> insert(c, page_id, new_env), result |-> new_env,
              hit |-> FALSE]

\* The whole body runs under the guard of the cache Mutex: the value is the
\* cache the call leaves, the Environment it returns and whether it was a hit.
get_environment_for_page(c, page_id, now, later) ==
    IF page_id \in DOMAIN c
    THEN [cache |-> c, result |-> c[page_id], hit |-> TRUE]
    ELSE LET new_env == generate_environment(now, later)
         IN  [cache |-> insert(c, page_id, new_env), result |-> new_env,
              hit |-> FALSE]

NoEnvCall == [h |-> 0, page_id |-> "-", result |-> <<>>, hit |-> FALSE]

\* The wall clock moves on by a minute, into the next month or not.
ClockTick ==
    /\ clock.minute < MaxMinutes
    /\ \E month \in {clock.month, (clock.month % 12) + 1} :
          clock' = SystemTime(month, clock.minute + 1)
    /\ UNCHANGED <<tickVars, handlerVars, pureVars, cache, ecall, generated,
                   returned, sessionVars>>

\* Request h calls get_environment_for_page(&page.id).
EnvCall(h) ==
    /\ \E page_id \in PageIds :
       \E later \in {clock, SystemTime(clock.month, clock.minute + 1)} :
          LET r == get_environment_for_page(cache, page_id, clock, later)
          IN  /\ cache' = r.cache
              /\ ecall' = [h |-> h, page_id |-> page_id, result |-> <<r.result>>,
                           hit |-> r.hit]
              /\ generated' = IF r.hit THEN generated
                              ELSE [generated EXCEPT ![page_id] = @ + 1]
              /\ returned' = IF page_id \in DOMAIN returned THEN returned
                             ELSE insert(returned, page_id, r.result)
    /\ UNCHANGED <<tickVars, handlerVars, pureVars, clock, sessionVars>>

----------------------------------------------------------------------------
(* session.rs, pages.rs: valid_move, and the navigation of index_handler *)

UserSession(current_page) == [current_page |-> current_page]

UserAction(go_to) == [go_to |-> go_to]

\* Variant: any request to move takes the first connection of the page.
valid_move_first(current_page_id, requested_connection, pages) ==
    IF current_page_id \in DOMAIN pages
       /\ pages[current_page_id].connections # <<>>
    THEN <<pages[current_page_id].connections[1]>>
    ELSE <<>>

\* Option<&PageConnection>: the first connection of the page with that name.
valid_move(current_page_id, requested_connection, pages) ==
    IF current_page_id \in DOMAIN pages
    THEN LET connections == pages[current_page_id].connections
             found == {i \in 1..Len(connections) :
                          connections[i].name = requested_connection}
         IN  IF found = {} THEN <<>>
             ELSE <<connections[CHOOSE i \in found : \A j \in found : i <= j]>>
    ELSE <<>>

\* stored is what session.get finds under SESSION_KEY; insert is what the
\* call writes there.
get_or_create_user_session(stored, start_page) ==
    IF stored # <<>>
    THEN [user_session |-> stored[1], insert |-> <<>>]
    ELSE [user_session |-> UserSession(start_page),
          insert |-> <<UserSession(start_page)>>]

\* index_handler up to the lookup of the page: insert is the last value the
\* request writes under SESSION_KEY, if it writes one.
index_handler_session(stored, form, pages) ==
    LET got == get_or_create_user_session(stored, "small-town")
        found(page_id) == IF page_id \in DOMAIN pages THEN "Ok" ELSE "PageNotFound"
    IN  IF form = <<>>
        THEN [insert |-> got.insert,
              result |-> found(got.user_session.current_page)]
        ELSE LET conn == valid_move(got.user_session.current_page,
                                    form[1].go_to, pages)
             IN  IF conn # <<>>
                 THEN [insert |-> <<UserSession(conn[1].target)>>,
                       result |-> found(conn[1].target)]
                 ELSE [insert |-> got.insert, result |-> "SessionError"]

\* The requests of the client that can be in flight together.
Requests == 1..NumRequests

FormSamples ==
    {<<>>} \cup {<<UserAction(d)>> : d \in {"North", "South", "north", "West"}}

NoRequest == [pc |-> "done", loaded |-> <<>>, form |-> <<>>, result |-> "-"]

\* A request of the client arrives with the session the client holds.
RequestArrives(r) ==
    /\ request[r].pc = "done"
    /\ \E form \in FormSamples :
          request' = [request EXCEPT ![r] =
                         [pc |-> "running", loaded |-> session_store,
                          form |-> form, result |-> "-"]]
    /\ UNCHANGED <<tickVars, handlerVars, pureVars, envVars, session_store>>

\* The response leaves; the client keeps the session the request wrote.
RequestResponds(r) ==
    /\ request[r].pc = "running"
    /\ LET out == index_handler_session(request[r].loaded, request[r].form,
                                        load_page_graph)
       IN  /\ session_store' = IF out.insert = <<>> THEN session_store
                                ELSE out.insert
           /\ request' = [request EXCEPT ![r].pc = "done",
                                         ![r].result = out.result]
    /\ UNCHANGED <<tickVars, handlerVars, pureVars, envVars>>

----------------------------------------------------------------------------
(* Specifications *)

TickIdle ==
    /\ lock = Free
    /\ poisoned = FALSE
    /\ tick_pc = "sleep"
    /\ tick_result = "None"
    /\ world_time = 0
    /\ chosen = <<>>
    /\ location_map = NoLocationMap
    /\ events = <<>>
    /\ applied = 0
    /\ ticks = 0
    /\ preTick = actors

HandlersIdle ==
    /\ handler_pc = [h \in Handlers |-> "idle"]
    /\ handler_page = [h \in Handlers |-> "small-town"]
    /\ actors_here = [h \in Handlers |-> {}]

NoPureCalls == dcall = NoDecide /\ acall = NoApply

\* No request has come yet and the client holds no session.
SessionsIdle ==
    /\ session_store = <<>>
    /\ request = [r \in Requests |-> NoRequest]

\* EnvironmentManager::new, before any request.
EnvIdle ==
    /\ cache = EmptyCache
    /\ clock = SystemTime(2, 0)
    /\ ecall = NoEnvCall
    /\ generated = [p \in PageIds |-> 0]
    /\ returned = EmptyCache

\* The server after main has built the population and the page graph.
Init ==
    /\ actors = seed_roster
    /\ TickIdle
    /\ HandlersIdle
    /\ NoPureCalls
    /\ EnvIdle
    /\ SessionsIdle

TickNext == TickLock \/ TickChoose \/ TickIndex \/ TickDecide \/ TickApply \/ TickEnd

HandlerNext == \E h \in Handlers : HandlerLock(h) \/ HandlerRead(h) \/ HandlerReturn(h)

Next == TickNext \/ HandlerNext

Spec == Init /\ [][Next]_vars

\* Fairness of the threads: each synchronous section proceeds once begun, and
\* a tick that is due takes the lock if the lock stays free. Mutex::lock
\* promises no order among the threads that contend for it.
TickProceeds ==
    /\ WF_vars(TickChoose)
    /\ WF_vars(TickIndex)
    /\ WF_vars(TickDecide)
    /\ WF_vars(TickApply)
    /\ WF_vars(TickEnd)

HandlersProceed ==
    \A h \in Handlers : WF_vars(HandlerRead(h)) /\ WF_vars(HandlerReturn(h))

TickTriesLock == WF_vars(TickLock)


\* The server when tick_some can panic.
FaultNext ==
    \/ Next
    \/ TickPanic
    \/ TickLockPoisoned
    \/ \E h \in Handlers : HandlerLockPoisoned(h)

SpecFault == Init /\ [][FaultNext]_vars

\* decide called once on arguments drawn from the sample sets.
InitDecide ==
    /\ actors = seed_roster
    /\ TickIdle
    /\ HandlersIdle
    /\ \E a \in CallerSamples, h \in HourSamples, l \in LocalLists,
          g \in GraphSamples :
          dcall = [self |-> a, hour |-> h, local_actors |-> l,
                   page_graph |-> g, result |-> NoCall]
    /\ acall = NoApply
    /\ EnvIdle
    /\ SessionsIdle

SpecDecide == InitDecide /\ [][DecideCall]_vars

\* apply_action called repeatedly on one actor with any u8 fatigue.
InitApply ==
    /\ actors = seed_roster
    /\ TickIdle
    /\ HandlersIdle
    /\ dcall = NoDecide
    /\ \E a \in ApplyInputs :
          acall = [actor |-> a, before |-> a, last |-> NoCall,
                   run_start |-> a.state.fatigue, idle_run |-> 0]
    /\ EnvIdle
    /\ SessionsIdle

SpecApply == InitApply /\ [][ApplyCall]_vars

\* tick_some on populations of 1..MaxPop actors, up to the choice of the
\* actors to update.
crowd(n) ==
    [id \in {ToString(i) : i \in 1..n} |->
        Actor(id, id, "small-town", ActorState(1, TRUE, 0), {"Organic"})]

InitSelect ==
    /\ \E n \in 1..MaxPop : actors = crowd(n)
    /\ TickIdle
    /\ HandlersIdle
    /\ NoPureCalls
    /\ EnvIdle
    /\ SessionsIdle

SelectNext == TickLock \/ TickChoose

SpecSelect == InitSelect /\ [][SelectNext]_vars

InitLive ==
    /\ actors = crowd(2)
    /\ TickIdle
    /\ HandlersIdle
    /\ NoPureCalls
    /\ EnvIdle
    /\ SessionsIdle

\* loop { intvl.tick().await; ... }: the task goes round its loop for ever;
\* the count of calls starts over when it has reached MaxTicks.
TickLoop ==
    /\ tick_pc = "sleep"
    /\ ticks = MaxTicks
    /\ ticks' = 0
    /\ UNCHANGED <<actors, lock, poisoned, tick_pc, tick_result, world_time,
                   chosen, location_map, events, applied, preTick, handlerVars,
                   pureVars, envVars, sessionVars>>

\* The tick task running for ever on a small population, with
\* no request contending for the lock, when every actor is selected again
\* and again.
cycle_roster == crowd(1)

InitCycle ==
    /\ actors = cycle_roster
    /\ TickIdle
    /\ HandlersIdle
    /\ NoPureCalls
    /\ EnvIdle
    /\ SessionsIdle

CycleNext == TickNext \/ TickLoop

FairSelection ==
    \A id \in DOMAIN cycle_roster : SF_vars(TickChoose /\ id \in Range(chosen'))

SpecCycle ==
    /\ InitCycle
    /\ [][CycleNext]_vars
    /\ TickTriesLock
    /\ TickProceeds
    /\ WF_vars(TickLoop)
    /\ FairSelection

\* The server on a population of two, with the fairness of its threads.
SpecLive ==
    InitLive /\ [][Next]_vars /\ TickProceeds /\ HandlersProceed /\ TickTriesLock

\* The tick task on any roster of the actors in GenIds.
GenIds == {"a1", "a2"}

GenFlagSamples ==
    {{"Organic"}, {"Predatory"}, {"Organic", "Nocturnal"}, {"Predatory", "Nocturnal"}}

GenFatigueSamples == {0, 19, 20}

GenActors(id) ==
    {Actor(id, id, l, ActorState(1, w, f), fl) :
        l \in CallLocations, w \in BOOLEAN, f \in GenFatigueSamples,
        fl \in GenFlagSamples}

InitGen ==
    /\ actors \in {pop \in [GenIds -> UNION {GenActors(id) : id \in GenIds}] :
                      \A id \in GenIds : pop[id].id = id}
    /\ TickIdle
    /\ HandlersIdle
    /\ NoPureCalls
    /\ EnvIdle
    /\ SessionsIdle

SpecGen == InitGen /\ [][TickNext]_vars

\* The tick task on a roster of three actors, two of them one MoveTo away
\* from the fatigue threshold. Two calls of tick_some more than MaxTicks are
\* followed: the count of calls starts at -2.
tired_roster ==
    [id \in {"a1", "a2", "a3"} |->
        CASE id = "a1" -> Actor(id, id, "route-1", ActorState(1, TRUE, 19), {"Organic"})
          [] id = "a2" -> Actor(id, id, "small-town", ActorState(1, TRUE, 16), {"Organic"})
          [] id = "a3" -> Actor(id, id, "green-city", ActorState(1, TRUE, 0), {"Organic"})]

InitTired ==
    /\ actors = tired_roster
    /\ lock = Free
    /\ poisoned = FALSE
    /\ tick_pc = "sleep"
    /\ tick_result = "None"
    /\ world_time = 0
    /\ chosen = <<>>
    /\ location_map = NoLocationMap
    /\ events = <<>>
    /\ applied = 0
    /\ ticks = -2
    /\ preTick = actors
    /\ HandlersIdle
    /\ NoPureCalls
    /\ EnvIdle
    /\ SessionsIdle

SpecTired == InitTired /\ [][TickNext]_vars

\* Requests asking for the Environment of pages while the clock runs.
InitEnv ==
    /\ actors = seed_roster
    /\ TickIdle
    /\ HandlersIdle
    /\ NoPureCalls
    /\ cache = EmptyCache
    /\ \E month \in {2, 12} : clock = SystemTime(month, 0)
    /\ ecall = NoEnvCall
    /\ generated = [p \in PageIds |-> 0]
    /\ returned = EmptyCache
    /\ SessionsIdle

EnvNext == ClockTick \/ \E h \in Handlers : EnvCall(h)

SpecEnv == InitEnv /\ [][EnvNext]_vars

\* The requests of one client, as far as the session goes.
SessionNext == \E r \in Requests : RequestArrives(r) \/ RequestResponds(r)

SpecSession == Init /\ [][SessionNext]_vars

----------------------------------------------------------------------------
(* Properties of decide *)

Decided == dcall.result # NoCall

Decision == dcall.result[1]

\* Entries of the list given to decide that are at the caller's location,
\* have Organic and are not the caller.
OrganicPeers ==
    {i \in 1..Len(dcall.local_actors) :
        /\ dcall.local_actors[i].location = dcall.self.location
        /\ "Organic" \in dcall.local_actors[i].flags
        /\ dcall.local_actors[i].id # dcall.self.id}

FirstOrganicPeer == CHOOSE i \in OrganicPeers : \A j \in OrganicPeers : i <= j

CalledAsleepAtWakingHour ==
    /\ ~dcall.self.state.awake
    /\ \/ "Nocturnal" \notin dcall.self.flags /\ dcall.hour >= 6 /\ dcall.hour < 18
       \/ "Nocturnal" \in dcall.self.flags /\ ~(dcall.hour >= 6 /\ dcall.hour < 18)

\* C1: for every actor whose fatigue is >= 20, decide returns Sleep, whatever
\* its flags, its awake flag, the hour, the co-located actors and the page
\* graph are.
C1_FatigueOverride ==
    (Decided /\ dcall.self.state.fatigue >= 20) => Decision = Sleep

\* A tired, sleeping predator next to prey at a waking hour is told to sleep.
C1_Witness ==
    /\ Decided
    /\ Decision = Sleep
    /\ dcall.self.state.fatigue = 20
    /\ CalledAsleepAtWakingHour
    /\ "Predatory" \in dcall.self.flags
    /\ OrganicPeers # {}

\* C2 as stated: decide returns WakeUp for every non-Nocturnal actor asleep
\* in daytime and every Nocturnal actor asleep at night.
C2_WakeUpAsStated ==
    (Decided /\ CalledAsleepAtWakingHour) => Decision = WakeUp

\* C2 amended: decide returns WakeUp for every actor with fatigue < 20 that
\* is non-Nocturnal and asleep in daytime (hour in [6,18)), or Nocturnal and
\* asleep at night.
C2_WakeUpWhenRested ==
    (Decided /\ CalledAsleepAtWakingHour /\ dcall.self.state.fatigue < 20)
        => Decision = WakeUp

\* A nocturnal predator asleep at 18:00 with fatigue 19 is woken.
C2_Witness ==
    /\ Decided
    /\ Decision = WakeUp
    /\ dcall.self.state.fatigue = 19
    /\ ~dcall.self.state.awake
    /\ "Nocturnal" \in dcall.self.flags
    /\ dcall.hour = 18

\* C3: a Predatory, awake actor with fatigue < 20 whose list holds at least
\* one co-located Organic actor with another id gets Attack(t), t being the
\* id of the first such entry of the list; never MoveTo, Idle or WakeUp.
C3_AttackFirstOrganic ==
    (/\ Decided
     /\ "Predatory" \in dcall.self.flags
     /\ dcall.self.state.awake
     /\ dcall.self.state.fatigue < 20
     /\ OrganicPeers # {})
        => /\ Decision = Attack(dcall.local_actors[FirstOrganicPeer].id)
           /\ Decision.kind \notin {"MoveTo", "Idle", "WakeUp", "Sleep"}

\* The list starts with an entry that is no candidate and the second entry
\* is the one attacked.
C3_Witness ==
    /\ Decided
    /\ Len(dcall.local_actors) >= 2
    /\ 1 \notin OrganicPeers
    /\ 2 \in OrganicPeers
    /\ Decision = Attack(dcall.local_actors[2].id)
    /\ dcall.self.state.fatigue = 19

----------------------------------------------------------------------------
(* Properties of tick_some *)

PopulationSize == Cardinality(DOMAIN actors)

HasChosen == tick_pc \in {"index", "decide", "apply"}

\* C4 as stated: one call of tick_some selects at most max(1, floor(N/10))
\* actors and at least 1.
C4_SelectsAsStated ==
    HasChosen =>
        /\ Len(chosen) <= Max(1, PopulationSize \div 10)
        /\ Len(chosen) >= 1

\* C4 amended: one call of tick_some on N >= 1 actors selects exactly
\* min(N, 1 + max(1, floor(N/10))) of them: at least 1 and at most
\* 1 + max(1, floor(N/10)).
C4_SelectsOneMore ==
    HasChosen =>
        /\ Len(chosen) = Min(PopulationSize, 1 + Max(1, PopulationSize \div 10))
        /\ Len(chosen) >= 1
        /\ Len(chosen) <= 1 + Max(1, PopulationSize \div 10)
        /\ Range(chosen) \subseteq DOMAIN actors

\* Three of twenty actors are selected.
C4_Witness ==
    /\ HasChosen
    /\ PopulationSize = 20
    /\ Len(chosen) = 3

\* The decisions decide can return for id on the population pop, the roster
\* order of the location index being the one of location_map.
SnapshotDecisions(pop, id) ==
    {decide(pop[id], world_time, locals_of(pop, location_map, id),
            load_page_graph, roll, idx) :
        roll \in RollSamples, idx \in connection_indices(pop[id], load_page_graph)}

\* C5: within one tick every decision is decide evaluated on the population
\* as it was when the tick started, no action is applied before all
\* decisions are taken, and the population during and after the apply loop
\* is the pre-tick population with those decisions applied to the actors
\* processed so far, whatever their order.
C5_DecideOnSnapshot ==
    tick_pc \in {"decide", "apply"} =>
        /\ \E order \in Perms(DOMAIN preTick) :
              location_map = build_location_map(preTick, order)
        /\ Len(events) <= Len(chosen)
        /\ applied > 0 => Len(events) = Len(chosen)
        /\ \A i \in 1..Len(events) :
              /\ events[i][1] = chosen[i]
              /\ events[i][2] \in SnapshotDecisions(preTick, chosen[i])
        /\ \A id \in DOMAIN actors :
              LET done == {i \in 1..applied : events[i][1] = id}
              IN  /\ Cardinality(done) <= 1
                  /\ done = {} => actors[id] = preTick[id]
                  /\ \A i \in done :
                        actors[id] = apply_action(preTick[id], events[i][2])

\* A predator attacks an actor that has moved away earlier in the same tick.
C5_Witness ==
    /\ tick_pc = "apply"
    /\ applied = 2
    /\ events[1][2].kind = "MoveTo"
    /\ events[2][2] = Attack(events[1][1])
    /\ actors[events[1][1]].location # actors[events[2][1]].location

----------------------------------------------------------------------------
(* Properties of the population lock *)

\* What a request for page p shows of the population pop.
ShownOf(pop, p) ==
    {pop[id] : id \in {i \in DOMAIN pop : pop[i].location = p /\ pop[i].state.awake}}

\* C6: a handler holds the population only while no tick is under way, and
\* what it has read is the population as some whole number of ticks left it.
C6_NoTornRead ==
    \A h \in Handlers :
        /\ handler_pc[h] \in {"locked", "render"} =>
              /\ tick_pc = "sleep"
              /\ lock = HeldByHandler(h)
              /\ actors = preTick
        /\ handler_pc[h] = "render" =>
              actors_here[h] = ShownOf(preTick, handler_page[h])
        /\ tick_pc # "sleep" => lock = HeldByTick

\* A request renders an actor that a completed tick has moved.
C6_Witness ==
    \E h \in Handlers :
        /\ handler_pc[h] = "render"
        /\ tick_result = "Ok"
        /\ \E a \in actors_here[h] :
              /\ a.state.fatigue = 4
              /\ a.location # seed_roster[a.id].location

\* C7: after a tick has panicked while holding the lock, every later tick
\* still acquires the lock and runs tick_some: no tick ends with lock()
\* failing on the Mutex before tick_some is called.
C7_LaterTicksRun == tick_result # "PoisonError"

----------------------------------------------------------------------------
(* Properties of apply_action *)

Applied(kind) == acall.last # NoCall /\ acall.last[1].kind = kind

\* C8: after apply_action(MoveTo(p)) the location is p, the fatigue is
\* min(old fatigue + 4, 255) and the awake flag is unchanged.
C8_MoveTo ==
    Applied("MoveTo") =>
        /\ acall.actor.location = acall.last[1].arg
        /\ acall.actor.state.fatigue = Min(acall.before.state.fatigue + 4, 255)
        /\ acall.actor.state.awake = acall.before.state.awake

\* A move at fatigue 253 ends at fatigue 255 in another location.
C8_Witness ==
    /\ Applied("MoveTo")
    /\ acall.before.state.fatigue = 253
    /\ acall.actor.state.fatigue = 255
    /\ acall.actor.location # acall.before.location

\* C9: apply_action(Idle) sets fatigue to max(old fatigue - 1, 0), never
\* raising it, and leaves awake and location unchanged; after n Idles in a
\* row from fatigue f the fatigue is max(f - n, 0): it reaches 0 and stays.
C9_Idle ==
    Applied("Idle") =>
        /\ acall.actor.state.fatigue = Max(acall.before.state.fatigue - 1, 0)
        /\ acall.actor.state.fatigue <= acall.before.state.fatigue
        /\ acall.actor.state.awake = acall.before.state.awake
        /\ acall.actor.location = acall.before.location
        /\ acall.actor.state.fatigue = Max(acall.run_start - acall.idle_run, 0)
        /\ acall.idle_run >= acall.run_start => acall.actor.state.fatigue = 0

\* Idle is applied again after a run of Idles from 255 has reached 0.
C9_Witness ==
    /\ Applied("Idle")
    /\ acall.run_start = 255
    /\ acall.idle_run > 255
    /\ acall.before.state.fatigue = 0
    /\ acall.actor.state.fatigue = 0

\* C10: apply_action(WakeUp) sets awake; fatigue <= 2 is left unchanged and
\* fatigue > 2 decreases by exactly 2, never below 0 and never wrapping.
C10_WakeUp ==
    Applied("WakeUp") =>
        /\ acall.actor.state.awake
        /\ acall.before.state.fatigue <= 2 =>
              acall.actor.state.fatigue = acall.before.state.fatigue
        /\ acall.before.state.fatigue > 2 =>
              acall.actor.state.fatigue = acall.before.state.fatigue - 2
        /\ acall.actor.state.fatigue >= 0
        /\ acall.actor.state.fatigue <= acall.before.state.fatigue
        /\ acall.actor.location = acall.before.location

\* A sleeping actor with fatigue 2 wakes up with fatigue 2.
C10_Witness ==
    /\ Applied("WakeUp")
    /\ ~acall.before.state.awake
    /\ acall.actor.state.awake
    /\ acall.before.state.fatigue = 2
    /\ acall.actor.state.fatigue = 2

----------------------------------------------------------------------------
(* Properties of one tick of the population *)

\* The tick is about to apply, or has just applied, an event of this kind.
Applying(kind) ==
    /\ tick_pc = "apply"
    /\ applied < Len(events)
    /\ events[applied + 1][2].kind = kind

\* C11: applying Attack(id) changes the attacker alone: its fatigue becomes
\* min(old + 6, 255) while its awake flag, its location and its other fields
\* stay, and the target and every other actor are left as they were.
C11_AttackTiresAttackerOnly ==
    [][(Applying("Attack") /\ applied' = applied + 1) =>
          LET id == events[applied + 1][1]
          IN  /\ DOMAIN actors' = DOMAIN actors
              /\ actors'[id] = [actors[id] EXCEPT
                                   !.state.fatigue = Min(@ + 6, U8Max)]
              /\ \A other \in DOMAIN actors \ {id} :
                    actors'[other] = actors[other]]_vars

C11_Witness ==
    /\ tick_pc = "apply"
    /\ \E i \in 1..applied :
          LET id == events[i][1]
              target == events[i][2].arg
          IN  /\ events[i][2].kind = "Attack"
              /\ preTick[id].state.fatigue = 0
              /\ actors[id].state.fatigue = 6
              /\ actors[id].state.awake
              /\ actors[id].location = preTick[id].location
              /\ actors[target] = preTick[target]

\* C12: once an actor has a fatigue of 20 or more (as after MoveTo from 19,
\* which gives 23), nothing changes that actor until an action is applied to
\* it, and that action is Sleep and leaves it asleep: no tick that does not
\* select it changes its fatigue.
C12_TiredSleepsNext ==
    [][\A id \in DOMAIN actors :
          actors[id].state.fatigue >= fatigue_threshold =>
             \/ actors'[id] = actors[id]
             \/ /\ Applying("Sleep")
                /\ events[applied + 1][1] = id
                /\ applied' = applied + 1
                /\ ~actors'[id].state.awake]_vars

C12_Witness ==
    /\ tick_pc = "apply"
    /\ \E i \in 1..applied :
          LET id == events[i][1]
          IN  /\ events[i][2] = Sleep
              /\ tired_roster[id].state.fatigue = 19
              /\ preTick[id].state.fatigue = 23
              /\ preTick[id].state.awake
              /\ preTick[id].location # tired_roster[id].location
              /\ actors[id].state.fatigue = 22
              /\ ~actors[id].state.awake

\* C13: in every state the ticks reach from the seed roster and the loaded
\* page graph, the location of every actor is the id of a node of the graph.
C13_LocationIsNode ==
    \A id \in DOMAIN actors : actors[id].location \in DOMAIN load_page_graph

C13_Witness ==
    /\ tick_result = "Ok"
    /\ \E id \in DOMAIN actors :
          /\ actors[id].location # seed_roster[id].location
          /\ actors[id].location \in DOMAIN load_page_graph
          /\ actors[id].state.fatigue = seed_roster[id].state.fatigue + 4

\* C14: a step of a tick leaves every actor the tick did not select entirely
\* unchanged, changes the id, name, flags, health and target of no actor, and
\* neither adds nor removes an actor: the ids stay those of the seed roster.
C14_TickFrame ==
    [][/\ DOMAIN actors' = DOMAIN seed_roster
       /\ \A id \in DOMAIN actors :
             /\ actors'[id].id = actors[id].id
             /\ actors'[id].name = actors[id].name
             /\ actors'[id].flags = actors[id].flags
             /\ actors'[id].state.health = actors[id].state.health
             /\ actors'[id].state.target = actors[id].state.target
             /\ id \notin Range(chosen) => actors'[id] = actors[id]]_vars

C14_Witness ==
    /\ tick_pc = "apply"
    /\ applied = Len(events)
    /\ \E id \in Range(chosen) : actors[id].location # preTick[id].location
    /\ \E id \in DOMAIN actors \ Range(chosen) : actors[id] = preTick[id]
    /\ \A id \in DOMAIN actors \ Range(chosen) : actors[id] = seed_roster[id]

----------------------------------------------------------------------------
(* Properties of the population lock *)

\* C15: a tick never blocks for ever on the population lock: every tick that
\* is due takes the lock and runs to its end, and every handler that holds
\* the lock releases it.
C15_TickTakesLock ==
    /\ \A n \in 0..(MaxTicks - 1) :
          (tick_pc = "sleep" /\ ticks = n)
             ~> (tick_pc = "sleep" /\ ticks = n + 1 /\ tick_result = "Ok")
    /\ \A h \in Handlers :
          (lock = HeldByHandler(h)) ~> (lock # HeldByHandler(h))

\* C16: the actors one tick selects are pairwise distinct, so the tick
\* applies at most one action to an actor, and the fatigue of an actor rises
\* by at most 6 and falls by at most 2 within the tick.
C16_OneActionPerActor ==
    /\ \A i, j \in 1..Len(chosen) : i # j => chosen[i] # chosen[j]
    /\ \A i, j \in 1..Len(events) : i # j => events[i][1] # events[j][1]
    /\ \A id \in DOMAIN actors :
          /\ actors[id].state.fatigue - preTick[id].state.fatigue <= 6
          /\ actors[id].state.fatigue - preTick[id].state.fatigue >= -2

C16_Witness ==
    /\ tick_pc = "apply"
    /\ applied = Len(events)
    /\ Len(chosen) = 2
    /\ \E id \in DOMAIN actors :
          actors[id].state.fatigue - preTick[id].state.fatigue = 6
    /\ \E id \in DOMAIN actors :
          actors[id].state.fatigue - preTick[id].state.fatigue = -2

----------------------------------------------------------------------------
(* More properties of decide *)

\* The targets of the connections that leave the caller's location in the
\* graph given to decide.
OutgoingTargets ==
    IF dcall.self.location \in DOMAIN dcall.page_graph
    THEN LET connections == dcall.page_graph[dcall.self.location].connections
         IN  {connections[i].target : i \in 1..Len(connections)}
    ELSE {}

\* C17: for an awake actor with fatigue < 20 on which the predation rule does
\* not fire, decide returns Idle or MoveTo(t) with t the target of a
\* connection leaving its location; when its location is not in the graph or
\* has no connection, decide returns Idle.
C17_DefaultBehaviour ==
    (/\ Decided
     /\ dcall.self.state.awake
     /\ dcall.self.state.fatigue < 20
     /\ ~("Predatory" \in dcall.self.flags /\ OrganicPeers # {}))
        => /\ \/ Decision = Idle
              \/ Decision.kind = "MoveTo" /\ Decision.arg \in OutgoingTargets
           /\ OutgoingTargets = {} => Decision = Idle

\* An awake predator without prey, on a page the graph does not hold, idles.
C17_Witness ==
    /\ Decided
    /\ Decision = Idle
    /\ dcall.self.state.awake
    /\ dcall.self.state.fatigue = 19
    /\ "Predatory" \in dcall.self.flags
    /\ OrganicPeers = {}
    /\ dcall.self.location \notin DOMAIN dcall.page_graph

----------------------------------------------------------------------------
(* More properties of one tick of the population *)

\* The actor was asleep with fatigue < 20 when the tick began, and the hour
\* of the tick is not one at which its chronotype wakes it.
SleepsOn(a) ==
    /\ ~a.state.awake
    /\ a.state.fatigue < 20
    /\ \/ "Nocturnal" \notin a.flags /\ ~(world_time >= 6 /\ world_time < 18)
       \/ "Nocturnal" \in a.flags /\ world_time >= 6 /\ world_time < 18

\* C18: for an actor asleep with fatigue < 20 at an hour at which its
\* chronotype does not wake it, decide returns Idle, even for a Predatory
\* actor next to an Organic one; applying it leaves the actor asleep at its
\* location and lowers its fatigue by 1, not below 0.
C18_SleeperIdles ==
    \A i \in 1..Len(events) :
       LET id == events[i][1]
       IN  SleepsOn(preTick[id]) =>
              /\ events[i][2] = Idle
              /\ i <= applied =>
                    actors[id] = [preTick[id] EXCEPT
                                     !.state.fatigue = Max(@ - 1, 0)]

\* A sleeping predator next to prey has idled from fatigue 19 to 18.
C18_Witness ==
    /\ tick_pc = "apply"
    /\ \E i \in 1..applied :
          LET id == events[i][1]
          IN  /\ SleepsOn(preTick[id])
              /\ "Predatory" \in preTick[id].flags
              /\ \E o \in DOMAIN preTick \ {id} :
                    /\ preTick[o].location = preTick[id].location
                    /\ "Organic" \in preTick[o].flags
              /\ preTick[id].state.fatigue = 19
              /\ actors[id].state.fatigue = 18
              /\ ~actors[id].state.awake
              /\ actors[id].location = preTick[id].location

----------------------------------------------------------------------------
(* Properties of the requests *)

\* C19: index_handler never changes the population: whatever the requests
\* and the ticks do in whatever order, a step that changes an actor is the
\* apply loop of tick_some under the tick's lock, and no step of a request
\* changes the population.
C19_OnlyTickWrites ==
    [][/\ actors' # actors =>
             /\ lock = HeldByTick
             /\ tick_pc = "apply"
             /\ applied' = applied + 1
             /\ UNCHANGED handlerVars
       /\ ~(UNCHANGED handlerVars) => actors' = actors]_vars

\* A request holds the lock and has read the population a tick changed.
C19_Witness ==
    /\ tick_result = "Ok"
    /\ actors # seed_roster
    /\ \E h \in Handlers :
          /\ lock = HeldByHandler(h)
          /\ handler_pc[h] = "render"
          /\ actors_here[h] # {}
          /\ actors_here[h] \subseteq {actors[id] : id \in DOMAIN actors}
          /\ \E a \in actors_here[h] : a # seed_roster[a.id]

----------------------------------------------------------------------------
(* Properties of the fatigue and of the awake flag across ticks *)

\* C21: in every state the ticks reach, the fatigue of every actor is at
\* most 25: MoveTo (+4) and Attack (+6) are decided below 20 only, so the
\* saturation at 255 is never reached.
C21_FatigueAtMost25 ==
    \A id \in DOMAIN actors : actors[id].state.fatigue <= 25

\* An Attack decided at fatigue 19 has been applied.
C21_Witness ==
    /\ tick_pc = "apply"
    /\ \E i \in 1..applied :
          /\ events[i][2].kind = "Attack"
          /\ preTick[events[i][1]].state.fatigue = 19
          /\ actors[events[i][1]].state.fatigue = 25

\* C22: the awake flag of an actor goes from true to false only when the
\* tick applies Sleep to it, which happens only to an actor selected with a
\* fatigue of 20 or more: the hour alone never puts an awake actor to sleep.
C22_SleepOnlyWhenTired ==
    [][\A id \in DOMAIN actors :
          (actors[id].state.awake /\ ~actors'[id].state.awake) =>
             /\ Applying("Sleep")
             /\ events[applied + 1][1] = id
             /\ applied' = applied + 1
             /\ id \in Range(chosen)
             /\ preTick[id].state.fatigue >= 20
             /\ actors[id].state.fatigue >= 20]_vars

\* At 3:00 a tick has handled two awake actors: the one at fatigue 20 is now
\* asleep, the one at fatigue 19, not Nocturnal, is still awake.
C22_Witness ==
    /\ tick_pc = "apply"
    /\ applied = Len(events)
    /\ world_time = 3
    /\ \E x \in Range(chosen) :
          /\ preTick[x].state.awake
          /\ preTick[x].state.fatigue = 20
          /\ ~actors[x].state.awake
    /\ \E y \in Range(chosen) :
          /\ preTick[y].state.awake
          /\ preTick[y].state.fatigue = 19
          /\ "Nocturnal" \notin preTick[y].flags
          /\ actors[y].state.awake

----------------------------------------------------------------------------
(* Properties of the session *)

\* The page the session of request r is at when the handler looks at it.
LoadedPage(r) ==
    IF request[r].loaded = <<>> THEN "small-town"
    ELSE request[r].loaded[1].current_page

\* The targets of the connections of that page that go_to names.
NamedTargets(r) ==
    IF request[r].form = <<>> \/ LoadedPage(r) \notin DOMAIN load_page_graph
    THEN {}
    ELSE LET connections == load_page_graph[LoadedPage(r)].connections
         IN  {connections[i].target :
                 i \in {j \in 1..Len(connections) :
                           connections[j].name = request[r].form[1].go_to}}

\* Request r answers in this step.
Responds(r) == request[r].pc = "running" /\ request'[r].pc = "done"

\* C24: the current page of the session changes only in a request whose go_to
\* names a connection of the page its session is at, and becomes the target
\* of that connection (or small-town, when the request starts the session);
\* a request whose go_to names no connection of that page gets an error and
\* leaves the stored page as it is; the stored page is always a node of the
\* page graph.
C24_SessionMovesByConnection ==
    /\ [][/\ session_store' # session_store =>
                \E r \in Requests :
                   /\ Responds(r)
                   /\ \/ session_store' \in {<<UserSession(t)>> : t \in NamedTargets(r)}
                      \/ /\ request[r].loaded = <<>>
                         /\ NamedTargets(r) = {}
                         /\ session_store' = <<UserSession("small-town")>>
          /\ \A r \in Requests :
                (Responds(r) /\ NamedTargets(r) # {}) =>
                   /\ session_store' \in {<<UserSession(t)>> : t \in NamedTargets(r)}
                   /\ request'[r].result = "Ok"
          /\ \A r \in Requests :
                (Responds(r) /\ request[r].form # <<>> /\ NamedTargets(r) = {}) =>
                   /\ request'[r].result = "SessionError"
                   /\ request[r].loaded # <<>> => session_store' = session_store]_vars
    /\ [](session_store # <<>> =>
             session_store[1].current_page \in DOMAIN load_page_graph)

\* The session has walked to green-city, and a request to go North from
\* there was answered with an error and left it at green-city.
C24_Witness ==
    /\ session_store = <<UserSession("green-city")>>
    /\ \E r \in Requests :
          /\ request[r].pc = "done"
          /\ request[r].loaded = <<UserSession("green-city")>>
          /\ request[r].form = <<UserAction("North")>>
          /\ request[r].result = "SessionError"

====
